---- MODULE Spec2Model ----
(***************************************************************************)
(* Model of src/auto_driving_simulation.py: Field, Car and Simulation.     *)
(* A car is a record with the attributes Car.__init__ and Car.reset set;   *)
(* Simulation.run is a state machine over pc:                              *)
(*   "idle"  --Start-->  "while"  --WhileTest-->  "for" | "results"        *)
(*   "for"   --ForCar (one car per step)-->  "for" | "check"               *)
(*   "check" --CheckStep-->  "while"         "results" --Results--> "done" *)
(*   "done"  --Restart-->  "while"   (run() called again, SpecRerun)       *)
(* SimulationApp.run, the shell, comes before and after it (SpecShell):     *)
(*   "get_field" --GetField--> "menu" --AddCar--> "menu"                   *)
(*   "menu" --RunSimulation--> "idle"     "done" --PostOption--> "get_field" | "exit" *)
(* idx is the for loop's position in self.cars; results is the list the    *)
(* last call returned and returned tells whether a call has returned.      *)
(* command_index is 0-based as in the source; commands is a 1-based        *)
(* sequence, so the source's commands[command_index] is                    *)
(* commands[command_index + 1] here.                                       *)
(***************************************************************************)
EXTENDS Integers, Sequences, FiniteSets, TLC

VARIABLES field, cars, step, pc, idx, results, returned

vars == <<field, cars, step, pc, idx, results, returned>>

----------------------------------------------------------------------------
(* Bounds of the checked inputs.                                           *)

\* A lone car: field up to MaxWidth x MaxHeight, up to MaxSoloCommands commands.
MaxWidth == 2
MaxHeight == 2
MaxSoloCommands == 3
\* A fleet: up to three cars on the corridor, with at most MaxFleetCommands
\* commands in all.
MaxFleetCommands == 2
\* A pile-up: three cars on the corridor, the second one parked (no
\* commands), the others with up to MaxPileupCommands commands each.
MaxPileupCommands == 2

\* A turning car: alone on a field of one cell, with up to MaxTurnCommands
\* commands, all of them L or R.
MaxTurnCommands == 4

\* The cars' names, in registration order.
Names == <<"A", "B", "C">>
Directions == {"N", "S", "E", "W"}
Commands == {"F", "L", "R"}

\* collision_info = None
None == <<>>

RECURSIVE SeqsUpTo(_, _)
SeqsUpTo(S, n) ==
    IF n = 0 THEN {<<>>}
    ELSE LET shorter == SeqsUpTo(S, n - 1)
         IN  shorter \cup {Append(s, c) : s \in {t \in shorter : Len(t) = n - 1}, c \in S}

Min(a, b) == IF a <= b THEN a ELSE b
Max(a, b) == IF a >= b THEN a ELSE b

----------------------------------------------------------------------------
(* Field                                                                   *)

NewField(width, height) == [width |-> width, height |-> height]

\* Mutant: the upper bounds are inclusive.
is_within_bounds_inclusive(f, x, y) ==
    0 <= x /\ x <= f.width /\ 0 <= y /\ y <= f.height

\* Mutant: only the upper bounds are tested.
is_within_bounds_upper_only(f, x, y) ==
    x < f.width /\ y < f.height

is_within_bounds(f, x, y) ==
    0 <= x /\ x < f.width /\ 0 <= y /\ y < f.height

----------------------------------------------------------------------------
(* Car                                                                     *)

\* Mutant: collision_info is not reset.
reset_keeps_collision_info(car) ==
    [car EXCEPT !.x = car.initial_x,
                !.y = car.initial_y,
                !.direction = car.initial_direction,
                !.command_index = 0,
                !.collided = FALSE]

\* Mutant: command_index is not reset.
reset_keeps_index(car) ==
    [car EXCEPT !.x = car.initial_x,
                !.y = car.initial_y,
                !.direction = car.initial_direction,
                !.collided = FALSE,
                !.collision_info = None]

reset(car) ==
    [car EXCEPT !.x = car.initial_x,
                !.y = car.initial_y,
                !.direction = car.initial_direction,
                !.command_index = 0,
                !.collided = FALSE,
                !.collision_info = None]

NewCar(name, x, y, direction, commands) ==
    reset([name |-> name,
           initial_x |-> x,
           initial_y |-> y,
           initial_direction |-> direction,
           commands |-> commands,
           x |-> x,
           y |-> y,
           direction |-> direction,
           command_index |-> 0,
           collided |-> FALSE,
           collision_info |-> None])

has_next_command(car) == car.command_index < Len(car.commands)

\* Mutant: the left turn goes clockwise.
rotate_left_clockwise(d) ==
    CASE d = "N" -> "E"
      [] d = "E" -> "S"
      [] d = "S" -> "W"
      [] d = "W" -> "N"

rotate_left(d) ==
    CASE d = "N" -> "W"
      [] d = "W" -> "S"
      [] d = "S" -> "E"
      [] d = "E" -> "N"

rotate_right(d) ==
    CASE d = "N" -> "E"
      [] d = "E" -> "S"
      [] d = "S" -> "W"
      [] d = "W" -> "N"

\* Mutant: East and West are exchanged.
new_x_mirrored(car) ==
    CASE car.direction = "E" -> car.x - 1
      [] car.direction = "W" -> car.x + 1
      [] OTHER -> car.x

\* The candidate cell of an F command: one unit ahead in the heading.
new_x(car) ==
    CASE car.direction = "E" -> car.x + 1
      [] car.direction = "W" -> car.x - 1
      [] OTHER -> car.x

\* Mutant: North is down, South is up.
new_y_inverted(car) ==
    CASE car.direction = "N" -> car.y - 1
      [] car.direction = "S" -> car.y + 1
      [] OTHER -> car.y

new_y(car) ==
    CASE car.direction = "N" -> car.y + 1
      [] car.direction = "S" -> car.y - 1
      [] OTHER -> car.y

\* Mutant: an F command that would leave the field is not consumed.
execute_next_command_retry(car, f) ==
    IF ~has_next_command(car) \/ car.collided
    THEN car
    ELSE LET cmd == car.commands[car.command_index + 1]
             adv == [car EXCEPT !.command_index = @ + 1]
         IN  CASE cmd = "L" -> [adv EXCEPT !.direction = rotate_left(car.direction)]
               [] cmd = "R" -> [adv EXCEPT !.direction = rotate_right(car.direction)]
               [] cmd = "F" ->
                    IF is_within_bounds(f, new_x(car), new_y(car))
                    THEN [adv EXCEPT !.x = new_x(car), !.y = new_y(car)]
                    ELSE car
               [] OTHER -> adv

\* Mutant: only collided is tested on entry, and the index runs past the
\* end of the commands.
execute_next_command_unguarded(car, f) ==
    IF car.collided
    THEN car
    ELSE LET adv == [car EXCEPT !.command_index = @ + 1]
         IN  IF ~has_next_command(car) THEN adv
             ELSE LET cmd == car.commands[car.command_index + 1]
                  IN  CASE cmd = "L" -> [adv EXCEPT !.direction = rotate_left(car.direction)]
                        [] cmd = "R" -> [adv EXCEPT !.direction = rotate_right(car.direction)]
                        [] cmd = "F" ->
                             IF is_within_bounds(f, new_x(car), new_y(car))
                             THEN [adv EXCEPT !.x = new_x(car), !.y = new_y(car)]
                             ELSE adv
                        [] OTHER -> adv

execute_next_command(car, f) ==
    IF ~has_next_command(car) \/ car.collided
    THEN car
    ELSE LET cmd == car.commands[car.command_index + 1]
             adv == [car EXCEPT !.command_index = @ + 1]
         IN  CASE cmd = "L" -> [adv EXCEPT !.direction = rotate_left(car.direction)]
               [] cmd = "R" -> [adv EXCEPT !.direction = rotate_right(car.direction)]
               [] cmd = "F" ->
                    IF is_within_bounds(f, new_x(car), new_y(car))
                    THEN [adv EXCEPT !.x = new_x(car), !.y = new_y(car)]
                    ELSE adv
               [] OTHER -> adv

----------------------------------------------------------------------------
(* Simulation                                                              *)

\* Mutant: a collided car with commands left keeps the loop going.
loop_condition_any_command(cs) ==
    \E i \in 1..Len(cs) : has_next_command(cs[i])

\* Mutant: the loop goes on only while every car can still advance.
loop_condition_every_car(cs) ==
    /\ cs # <<>>
    /\ \A i \in 1..Len(cs) : has_next_command(cs[i]) /\ ~cs[i].collided

\* The condition of the while loop of run().
loop_condition(cs) ==
    \E i \in 1..Len(cs) : has_next_command(cs[i]) /\ ~cs[i].collided

\* The guard of the for loop's body in run().
may_execute(car) == ~car.collided /\ has_next_command(car)

\* The body of "for car in self.cars" for the car at index i.
for_body(cs, f, i) ==
    IF may_execute(cs[i])
    THEN [cs EXCEPT ![i] = execute_next_command(cs[i], f)]
    ELSE cs

\* Mutant: cars collided earlier are grouped too.
cars_at_pos_all(cs, x, y) ==
    SelectSeq([i \in 1..Len(cs) |-> i],
              LAMBDA i : cs[i].x = x /\ cs[i].y = y)

\* Mutant: cars with no command left are not grouped either.
cars_at_pos_with_commands(cs, x, y) ==
    SelectSeq([i \in 1..Len(cs) |-> i],
              LAMBDA i : ~cs[i].collided /\ has_next_command(cs[i])
                                         /\ cs[i].x = x /\ cs[i].y = y)

\* pos_map[pos] of check_collisions: the indices, in registration order, of
\* the cars not yet collided that stand on pos.
cars_at_pos(cs, x, y) ==
    SelectSeq([i \in 1..Len(cs) |-> i],
              LAMBDA i : ~cs[i].collided /\ cs[i].x = x /\ cs[i].y = y)

\* Mutant: the car's own name is not left out.
other_names_all(cs, group, i) ==
    [k \in 1..Len(group) |-> cs[group[k]].name]

\* Mutant: a single pass over the cars, each one paired with the cars on its
\* cell registered before it (the first of a cell with the second).
other_names_single_pass(cs, group, i) ==
    LET earlier == SelectSeq(group, LAMBDA j : j < i)
        paired == IF earlier = <<>> THEN <<group[2]>> ELSE earlier
    IN  [k \in 1..Len(paired) |-> cs[paired[k]].name]

other_names(cs, group, i) ==
    LET others == SelectSeq(group, LAMBDA j : cs[j].name # cs[i].name)
    IN  [k \in 1..Len(others) |-> cs[others[k]].name]

\* Mutant: every car on a shared cell is marked again, collided or not.
check_collisions_remark(cs, st) ==
    [i \in 1..Len(cs) |->
        LET group == cars_at_pos_all(cs, cs[i].x, cs[i].y)
        IN  IF Len(group) > 1
            THEN [cs[i] EXCEPT !.collided = TRUE,
                               !.collision_info =
                                   <<other_names(cs, group, i), <<cs[i].x, cs[i].y>>, st>>]
            ELSE cs[i]]

\* Mutant: the step recorded is the number of rounds completed before.
check_collisions_step_before(cs, st) ==
    [i \in 1..Len(cs) |->
        LET group == cars_at_pos(cs, cs[i].x, cs[i].y)
        IN  IF ~cs[i].collided /\ Len(group) > 1
            THEN [cs[i] EXCEPT !.collided = TRUE,
                               !.collision_info =
                                   <<other_names(cs, group, i), <<cs[i].x, cs[i].y>>, st - 1>>]
            ELSE cs[i]]

check_collisions(cs, st) ==
    [i \in 1..Len(cs) |->
        LET group == cars_at_pos(cs, cs[i].x, cs[i].y)
        IN  IF ~cs[i].collided /\ Len(group) > 1
            THEN [cs[i] EXCEPT !.collided = TRUE,
                               !.collision_info =
                                   <<other_names(cs, group, i), <<cs[i].x, cs[i].y>>, st>>]
            ELSE cs[i]]

\* run() as a function of the field and the registered cars: the cars as
\* the while loop leaves them.
RECURSIVE for_loop(_, _, _)
for_loop(cs, f, i) ==
    IF i > Len(cs) THEN cs ELSE for_loop(for_body(cs, f, i), f, i + 1)

RECURSIVE while_loop(_, _, _)
while_loop(cs, f, st) ==
    IF loop_condition(cs)
    THEN while_loop(check_collisions(for_loop(cs, f, 1), st + 1), f, st + 1)
    ELSE cs

run(f, cs) == while_loop([i \in 1..Len(cs) |-> reset(cs[i])], f, 0)

\* Mutant: every car is reported by its position and heading.
result_line_position_only(car) ==
    <<car.name, <<car.x, car.y>>, car.direction>>

\* One entry of the list run() returns.
result_line(car) ==
    IF car.collided
    THEN <<car.name, "collides with", car.collision_info[1],
           car.collision_info[2], car.collision_info[3]>>
    ELSE <<car.name, <<car.x, car.y>>, car.direction>>

----------------------------------------------------------------------------
(* Initial states: the Simulation as constructed, run() not yet called.    *)

Cells(f) == {<<x, y>> : x \in 0..(f.width - 1), y \in 0..(f.height - 1)}

RECURSIVE Sum(_, _)
Sum(lens, n) == IF n = 0 THEN 0 ELSE lens[n] + Sum(lens, n - 1)

\* The commands of car i when the cars' command strings, lens[i] long each,
\* are written one after the other in flat.
Split(flat, lens, i) == SubSeq(flat, Sum(lens, i - 1) + 1, Sum(lens, i))

\* The field of the fleets and pile-ups: two cells side by side.
Corridor == NewField(2, 1)

\* Simulation(Field f, [Car(Names[1], ...), ..., Car(Names[n], ...)]) for every
\* choice of the cars' cells, headings and command strings with at most
\* maxTotal commands in all; run() not yet called.
Constructed(f, n, maxTotal) ==
    \E flat \in SeqsUpTo(Commands, maxTotal) :
      \E lens \in {m \in [1..n -> 0..Len(flat)] : Sum(m, n) = Len(flat)} :
        \E p \in [1..n -> Cells(f) \X Directions] :
            /\ field = f
            /\ cars = [i \in 1..n |->
                          NewCar(Names[i], p[i][1][1], p[i][1][2], p[i][2],
                                 Split(flat, lens, i))]
            /\ step = 0
            /\ pc = "idle"
            /\ idx = 0
            /\ results = <<>>
            /\ returned = FALSE

InitSolo ==
    \E w \in 1..MaxWidth, h \in 1..MaxHeight :
        Constructed(NewField(w, h), 1, MaxSoloCommands)

InitFleet ==
    \E n \in 0..Len(Names) :
        Constructed(Corridor, n, MaxFleetCommands)

InitPileup ==
    \E a, c \in Cells(Corridor) \X Directions \X SeqsUpTo(Commands, MaxPileupCommands) :
      \E b \in Cells(Corridor) :
        /\ field = Corridor
        /\ cars = <<NewCar(Names[1], a[1][1], a[1][2], a[2], a[3]),
                    NewCar(Names[2], b[1], b[2], "N", <<>>),
                    NewCar(Names[3], c[1][1], c[1][2], c[2], c[3])>>
        /\ step = 0
        /\ pc = "idle"
        /\ idx = 0
        /\ results = <<>>
        /\ returned = FALSE

Init == InitSolo \/ InitFleet

\* A lone car that only turns.
InitTurning ==
    \E d \in Directions, commands \in SeqsUpTo({"L", "R"}, MaxTurnCommands) :
        /\ field = NewField(1, 1)
        /\ cars = <<NewCar(Names[1], 0, 0, d, commands)>>
        /\ step = 0
        /\ pc = "idle"
        /\ idx = 0
        /\ results = <<>>
        /\ returned = FALSE

\* The cars of the scenarios of the tests.
ScenarioA == NewCar("A", 1, 2, "N", <<"F", "F", "R", "F", "F", "F", "F", "R", "R", "L">>)
ScenarioB == NewCar("B", 7, 8, "W", <<"F", "F", "L", "F", "F", "F", "F", "F", "F", "F">>)

\* test_single_car_simulation and test_multi_car_simulation_collision:
\* Simulation(Field(10, 10), [car_A]) and Simulation(Field(10, 10), [car_A, car_B]).
InitScenario ==
    /\ field = NewField(10, 10)
    /\ cars \in {<<ScenarioA>>, <<ScenarioA, ScenarioB>>}
    /\ step = 0
    /\ pc = "idle"
    /\ idx = 0
    /\ results = <<>>
    /\ returned = FALSE

----------------------------------------------------------------------------
(* Simulation.run                                                          *)

\* Lines 120-122: step = 0 and every car reset.
Begin ==
    /\ step' = 0
    /\ cars' = [i \in 1..Len(cars) |-> reset(cars[i])]
    /\ pc' = "while"
    /\ UNCHANGED <<field, idx, results, returned>>

\* The first call of run().
Start ==
    /\ pc = "idle"
    /\ Begin

\* A later call of run() on the same Simulation, after the previous call returned.
Restart ==
    /\ pc = "done"
    /\ Begin

\* The test of the while loop and, when it holds, step += 1.
WhileTest ==
    /\ pc = "while"
    /\ IF loop_condition(cars)
       THEN /\ step' = step + 1
            /\ idx' = 1
            /\ pc' = "for"
       ELSE /\ pc' = "results"
            /\ UNCHANGED <<step, idx>>
    /\ UNCHANGED <<field, cars, results, returned>>

\* One iteration of "for car in self.cars".
ForCar ==
    /\ pc = "for"
    /\ idx <= Len(cars)
    /\ cars' = for_body(cars, field, idx)
    /\ IF idx = Len(cars)
       THEN pc' = "check" /\ idx' = 0
       ELSE pc' = "for" /\ idx' = idx + 1
    /\ UNCHANGED <<field, step, results, returned>>

\* self.check_collisions() at the end of the round.
CheckStep ==
    /\ pc = "check"
    /\ cars' = check_collisions(cars, step)
    /\ pc' = "while"
    /\ UNCHANGED <<field, step, idx, results, returned>>

\* The result list is built and returned.
Results ==
    /\ pc = "results"
    /\ results' = [i \in 1..Len(cars) |-> result_line(cars[i])]
    /\ returned' = TRUE
    /\ pc' = "done"
    /\ UNCHANGED <<field, cars, step, idx>>

Next == Start \/ WhileTest \/ ForCar \/ CheckStep \/ Results

Spec == Init /\ [][Next]_vars

\* run() is single-threaded straight-line code: a step that can be taken is taken.
SpecFair == Init /\ [][Next]_vars /\ WF_vars(Next)

\* The same, over the longer runs of the pile-ups as well.
SpecPileup == (Init \/ InitPileup) /\ [][Next]_vars

\* The lone cars, and the lone cars that only turn.
SpecTurning == (InitSolo \/ InitTurning) /\ [][Next]_vars

\* The lone cars and the scenarios of the tests.
SpecScenario == (InitSolo \/ InitScenario) /\ [][Next]_vars

\* run() called again and again on the same Simulation.
NextRerun == Next \/ Restart

SpecRerun == Init /\ [][NextRerun]_vars

----------------------------------------------------------------------------
(* SimulationApp: the interactive shell.  A line of input is a sequence of *)
(* one-character strings; field is None until get_field has returned.      *)

\* str.strip(): the blanks at both ends removed.
RECURSIVE lstrip(_)
lstrip(s) == IF s # <<>> /\ Head(s) = " " THEN lstrip(Tail(s)) ELSE s

RECURSIVE rstrip(_)
rstrip(s) ==
    IF s # <<>> /\ s[Len(s)] = " " THEN rstrip(SubSeq(s, 1, Len(s) - 1)) ELSE s

strip(s) == rstrip(lstrip(s))

\* str.split(): the maximal runs of non-blank characters, in order.
RECURSIVE split_from(_, _, _)
split_from(s, parts, word) ==
    IF s = <<>>
    THEN IF word = <<>> THEN parts ELSE Append(parts, word)
    ELSE IF Head(s) = " "
         THEN split_from(Tail(s), IF word = <<>> THEN parts ELSE Append(parts, word), <<>>)
         ELSE split_from(Tail(s), parts, Append(word, Head(s)))

split(s) == split_from(s, <<>>, <<>>)

\* str.upper(), on the letters of the inputs.
upper_char(c) ==
    CASE c = "f" -> "F"
      [] c = "l" -> "L"
      [] c = "r" -> "R"
      [] c = "n" -> "N"
      [] c = "s" -> "S"
      [] c = "e" -> "E"
      [] c = "w" -> "W"
      [] c = "x" -> "X"
      [] c = "a" -> "A"
      [] OTHER -> c

upper(s) == [k \in 1..Len(s) |-> upper_char(s[k])]

digit_value(c) ==
    CASE c = "0" -> 0 [] c = "1" -> 1 [] c = "2" -> 2 [] c = "3" -> 3
      [] c = "4" -> 4 [] c = "5" -> 5 [] c = "6" -> 6 [] c = "7" -> 7
      [] c = "8" -> 8 [] c = "9" -> 9

is_digit(c) == c \in {"0", "1", "2", "3", "4", "5", "6", "7", "8", "9"}

\* int(token) of a token of split(): an optional sign and decimal digits.
\* int_raises is the ValueError.
unsigned(token) ==
    IF token # <<>> /\ Head(token) \in {"+", "-"} THEN Tail(token) ELSE token

int_raises(token) ==
    unsigned(token) = <<>> \/ \E k \in 1..Len(unsigned(token)) : ~is_digit(unsigned(token)[k])

RECURSIVE decimal(_)
decimal(digits) ==
    IF digits = <<>> THEN 0
    ELSE 10 * decimal(SubSeq(digits, 1, Len(digits) - 1)) + digit_value(digits[Len(digits)])

int(token) ==
    IF Head(token) = "-" THEN 0 - decimal(unsigned(token)) ELSE decimal(unsigned(token))

\* One prompt of get_field: the Field, or nothing when the line is asked again.
get_field(field_input) ==
    LET parts == split(strip(field_input))
    IN  IF Len(parts) # 2 THEN <<>>
        ELSE IF int_raises(parts[1]) \/ int_raises(parts[2]) THEN <<>>
        ELSE <<NewField(int(parts[1]), int(parts[2]))>>

\* What get_car does with the car once every check has passed.
checked_car(name, x, y, direction, commands) ==
    <<NewCar(name, x, y, direction[1], commands)>>

\* Mutant: the initial position is not checked against the field.
get_car_unchecked_position(existing_cars, f, name_input, pos_line, commands_input) ==
    LET name == strip(name_input)
    IN  IF \E k \in 1..Len(existing_cars) : existing_cars[k].name = name THEN <<>>
        ELSE LET pos_input == split(strip(pos_line))
             IN  IF Len(pos_input) # 3 THEN <<>>
                 ELSE IF int_raises(pos_input[1]) \/ int_raises(pos_input[2]) THEN <<>>
                 ELSE LET x == int(pos_input[1])
                          y == int(pos_input[2])
                          direction == upper(pos_input[3])
                      IN  IF direction \notin {<<"N">>, <<"S">>, <<"E">>, <<"W">>} THEN <<>>
                          ELSE LET commands == upper(strip(commands_input))
                               IN  IF \E k \in 1..Len(commands) :
                                          commands[k] \notin {"F", "L", "R"}
                                   THEN <<>>
                                   ELSE checked_car(name, x, y, direction, commands)

\* get_car: the Car, or nothing for the None it returns after a message.
\* The three lines are the answers to its three prompts; it returns at the
\* first check that fails, without reading the lines after it.
get_car(existing_cars, f, name_input, pos_line, commands_input) ==
    LET name == strip(name_input)
    IN  IF \E k \in 1..Len(existing_cars) : existing_cars[k].name = name THEN <<>>
        ELSE LET pos_input == split(strip(pos_line))
             IN  IF Len(pos_input) # 3 THEN <<>>
                 ELSE IF int_raises(pos_input[1]) \/ int_raises(pos_input[2]) THEN <<>>
                 ELSE LET x == int(pos_input[1])
                          y == int(pos_input[2])
                          direction == upper(pos_input[3])
                      IN  IF direction \notin {<<"N">>, <<"S">>, <<"E">>, <<"W">>} THEN <<>>
                          ELSE IF ~is_within_bounds(f, x, y) THEN <<>>
                          ELSE LET commands == upper(strip(commands_input))
                               IN  IF \E k \in 1..Len(commands) :
                                          commands[k] \notin {"F", "L", "R"}
                                   THEN <<>>
                                   ELSE checked_car(name, x, y, direction, commands)

\* The lines typed at the prompts.
RECURSIVE join(_)
join(tokens) ==
    IF tokens = <<>> THEN <<>>
    ELSE IF Len(tokens) = 1 THEN tokens[1]
    ELSE tokens[1] \o <<" ">> \o join(Tail(tokens))

\* Commands typed for one car: at most MaxShellCommands characters.
MaxShellCommands == 1

NumberTokens == {<<"0">>, <<"1">>, <<"-", "1">>, <<"a">>}
HeadingTokens == {<<"N">>, <<"e">>, <<"S">>, <<"X">>, <<"N", "E">>}

FieldLines ==
    {join(<<w, h>>) : w, h \in NumberTokens}
    \cup {<<"1">>, <<"1", " ", "1", " ", "1">>, <<" ", "1", " ", " ", "1">>}

NameLines == {<<>>, <<"A">>, <<" ", "A">>}

PositionLines ==
    {join(<<x, y, d>>) : x, y \in NumberTokens, d \in HeadingTokens}
    \cup {<<"0", " ", "0">>, <<"0", " ", "0", " ", "N", " ", "N">>,
          <<" ", "0", " ", " ", "0", " ", "N">>}

CommandLines ==
    SeqsUpTo({"F", "r", "X"}, MaxShellCommands) \cup {<<"F", " ">>}

\* SimulationApp.run starts: the welcome, then get_field.
InitShell ==
    /\ field = None
    /\ cars = <<>>
    /\ step = 0
    /\ pc = "get_field"
    /\ idx = 0
    /\ results = <<>>
    /\ returned = FALSE

\* A line typed at the prompt of get_field.
GetField ==
    /\ pc = "get_field"
    /\ \E field_input \in FieldLines :
          IF get_field(field_input) = <<>>
          THEN UNCHANGED <<field, pc>>
          ELSE field' = get_field(field_input)[1] /\ pc' = "menu"
    /\ UNCHANGED <<cars, step, idx, results, returned>>

\* Option 1: get_car, and the car appended when there is one.
AddCar ==
    /\ pc = "menu"
    /\ \E name_input \in NameLines, pos_line \in PositionLines, commands_input \in CommandLines :
          cars' = cars \o get_car(cars, field, name_input, pos_line, commands_input)
    /\ UNCHANGED <<field, step, pc, idx, results, returned>>

\* Option 2: with no cars the menu is shown again; otherwise
\* Simulation(field, cars) is constructed (step = 0) and run() is called next.
RunSimulation ==
    /\ pc = "menu"
    /\ IF cars = <<>>
       THEN UNCHANGED <<step, pc>>
       ELSE step' = 0 /\ pc' = "idle"
    /\ UNCHANGED <<field, cars, idx, results, returned>>

\* After the results are printed: option 1 starts over with the welcome and
\* get_field, a new list of cars and, later, a new Simulation; any other
\* option ends the program.
PostOption ==
    /\ pc = "done"
    /\ \E post_option \in {"1", "2", "x"} :
          IF post_option = "1"
          THEN /\ field' = None
               /\ cars' = <<>>
               /\ step' = 0
               /\ pc' = "get_field"
               /\ results' = <<>>
               /\ returned' = FALSE
          ELSE /\ pc' = "exit"
               /\ UNCHANGED <<field, cars, step, results, returned>>
    /\ UNCHANGED idx

NextShell == GetField \/ AddCar \/ RunSimulation \/ Next \/ PostOption

SpecShell == InitShell /\ [][NextShell]_vars

----------------------------------------------------------------------------
(* Properties                                                              *)

InRun == pc \notin {"idle", "done"}

SameCell(a, b) == a.x = b.x /\ a.y = b.y

UniqueNames == \A i, j \in 1..Len(cars) : cars[i].name = cars[j].name => i = j

SeqToSet(q) == {q[k] : k \in 1..Len(q)}

C2_CollidedIsFrozen ==
    [][\A i \in 1..Len(cars) :
          (InRun /\ cars[i].collided)
          => /\ cars'[i] = cars[i]
             /\ execute_next_command(cars[i], field) = cars[i]]_vars

\* A run ended in which a car collided while it still had commands, and a
\* later round was played.
C2_Witness ==
    /\ pc = "done"
    /\ \E i \in 1..Len(cars) :
          /\ cars[i].collided
          /\ has_next_command(cars[i])
          /\ cars[i].collision_info[3] < step

\* C3: with unique names, the other-names list of a collided car is not
\* empty, has no duplicate and holds exactly the names of the other cars
\* marked collided at the same step and position, never its own name.
C3_OtherNamesAreTheGroup ==
    UniqueNames =>
        \A i \in 1..Len(cars) :
            cars[i].collided =>
                LET info == cars[i].collision_info
                    others == info[1]
                IN  /\ Len(others) >= 1
                    /\ Cardinality(SeqToSet(others)) = Len(others)
                    /\ cars[i].name \notin SeqToSet(others)
                    /\ SeqToSet(others) =
                          {cars[j].name : j \in {k \in 1..Len(cars) :
                              /\ k # i
                              /\ cars[k].collided
                              /\ cars[k].collision_info[2] = info[2]
                              /\ cars[k].collision_info[3] = info[3]}}

\* Three cars collided at once.
C3_Witness ==
    \E i \in 1..Len(cars) :
        cars[i].collided /\ Len(cars[i].collision_info[1]) = 2

\* The length of the longest command string, 0 without cars.
RECURSIVE LongestCommands(_)
LongestCommands(cs) ==
    IF cs = <<>> THEN 0 ELSE Max(Len(cs[1].commands), LongestCommands(Tail(cs)))

\* C4: run() terminates, and the step counter never exceeds the length of the
\* longest command string (it stays 0 when no car has a command).
C4_TerminatesWithinLongest ==
    /\ <>(pc = "done")
    /\ [](step <= LongestCommands(cars))

\* A run ended after as many rounds as the longest command string has
\* commands, next to a car with fewer commands.
C4_Witness ==
    /\ pc = "done"
    /\ step = LongestCommands(cars)
    /\ step >= 2
    /\ \E i \in 1..Len(cars) : Len(cars[i].commands) < step

\* C5: in a round, the step counter is incremented first, then each car in
\* turn executes exactly one command if it is not collided and has one left
\* and none otherwise, then comes the collision check: when the check starts
\* and when it ends, every car that was not collided before the round has
\* command_index = min(step, number of its commands).
C5_OneCommandPerRound ==
    [][/\ pc = "for" =>
            /\ step' = step /\ step >= 1
            /\ \A k \in 1..Len(cars) :
                 /\ cars'[k].command_index =
                        IF k = idx /\ ~cars[k].collided
                                   /\ cars[k].command_index < Len(cars[k].commands)
                        THEN cars[k].command_index + 1
                        ELSE cars[k].command_index
                 /\ cars'[k].collided = cars[k].collided
                 /\ ~cars[k].collided =>
                        cars[k].command_index =
                            Min(IF k < idx THEN step ELSE step - 1, Len(cars[k].commands))
       /\ pc \in {"while", "check", "results"} =>
            \A k \in 1..Len(cars) : cars'[k].command_index = cars[k].command_index
       /\ pc = "while" => step' \in {step, step + 1}
       /\ pc = "check" =>
            /\ step' = step /\ pc' = "while"
            /\ \A k \in 1..Len(cars) :
                 ~cars[k].collided =>
                    /\ cars[k].command_index = Min(step, Len(cars[k].commands))
                    /\ cars'[k].command_index = Min(step, Len(cars[k].commands))]_vars

\* The second round reached its collision check: one car executed its second
\* command, another had none left and executed nothing.
C5_Witness ==
    /\ pc = "check"
    /\ step = 2
    /\ \E i, j \in 1..Len(cars) :
          /\ ~cars[i].collided /\ cars[i].command_index = 2
          /\ ~cars[j].collided /\ cars[j].command_index < 2

C7_RerunSameResults ==
    [][/\ (pc = "results" /\ returned) => results' = results
       /\ (pc \in {"idle", "done"} /\ pc' # pc) =>
            /\ step' = 0
            /\ Len(cars') = Len(cars)
            /\ \A i \in 1..Len(cars) :
                 cars'[i] = [name |-> cars[i].name,
                             initial_x |-> cars[i].initial_x,
                             initial_y |-> cars[i].initial_y,
                             initial_direction |-> cars[i].initial_direction,
                             commands |-> cars[i].commands,
                             x |-> cars[i].initial_x,
                             y |-> cars[i].initial_y,
                             direction |-> cars[i].initial_direction,
                             command_index |-> 0,
                             collided |-> FALSE,
                             collision_info |-> None]]_vars

\* A later run is about to return, with a collided car and a car that moved
\* and turned.
C7_Witness ==
    /\ pc = "results"
    /\ returned
    /\ \E i, j \in 1..Len(cars) :
          /\ cars[i].collided
          /\ ~cars[j].collided
          /\ cars[j].direction # cars[j].initial_direction
          /\ <<cars[j].x, cars[j].y>> # <<cars[j].initial_x, cars[j].initial_y>>

\* The cell one unit ahead of a car: North y+1, South y-1, East x+1, West x-1.
Ahead(car) ==
    CASE car.direction = "N" -> <<car.x, car.y + 1>>
      [] car.direction = "S" -> <<car.x, car.y - 1>>
      [] car.direction = "E" -> <<car.x + 1, car.y>>
      [] car.direction = "W" -> <<car.x - 1, car.y>>

OutsideField(cell) ==
    cell[1] < 0 \/ cell[1] >= field.width \/ cell[2] < 0 \/ cell[2] >= field.height

\* C8: when the car whose turn it is is not collided, its next command is F
\* and the cell ahead is outside the field, the step changes nothing of the
\* car but command_index, which grows by one.
C8_BlockedMoveConsumesCommand ==
    [][(/\ pc = "for"
        /\ ~cars[idx].collided
        /\ cars[idx].command_index < Len(cars[idx].commands)
        /\ cars[idx].commands[cars[idx].command_index + 1] = "F"
        /\ OutsideField(Ahead(cars[idx])))
       => cars'[idx] = [cars[idx] EXCEPT !.command_index = cars[idx].command_index + 1]]_vars

\* A car's first command was F, the cell ahead was outside the field: the
\* car stands where it started, with one command executed, and its second
\* command was executed too.
C8_Witness ==
    \E i \in 1..Len(cars) :
        /\ cars[i].command_index = 2
        /\ cars[i].commands[1] = "F"
        /\ cars[i].commands[2] = "L"
        /\ <<cars[i].x, cars[i].y>> = <<cars[i].initial_x, cars[i].initial_y>>
        /\ cars[i].direction = rotate_left(cars[i].initial_direction)
        /\ OutsideField(Ahead([cars[i] EXCEPT !.direction = cars[i].initial_direction]))

\* What C9 compares of a car after run().
Outcome(car) ==
    <<car.name, car.x, car.y, car.direction, car.collided,
      IF car.collided
      THEN <<SeqToSet(car.collision_info[1]), car.collision_info[2], car.collision_info[3]>>
      ELSE None>>

Outcomes(cs) == [i \in 1..Len(cs) |-> Outcome(cs[i])]

\* The cars cs in the order p: the car at index p[i] is registered i-th.
Reordered(cs, p) == [i \in 1..Len(cs) |-> cs[p[i]]]

\* C9: with unique names, when run() returns, run() on the same cars
\* registered in any other order leaves every car with the same x, y,
\* direction and collided flag and, if collided, the same collision position,
\* step and set of other names.
C9_RegistrationOrderIrrelevant ==
    [][(pc = "results" /\ UniqueNames) =>
          \A p \in Permutations(1..Len(cars)) :
              Outcomes(run(field, Reordered(cars, p))) = Outcomes(Reordered(cars', p))]_vars

\* A run of three cars ended with a collision and a car that did not collide.
C9_Witness ==
    /\ pc = "done"
    /\ Len(cars) = 3
    /\ \E i, j \in 1..Len(cars) : cars[i].collided /\ ~cars[j].collided /\ cars[j].command_index >= 1

\* C10: after every round, cars that share a cell are all collided.
C10_SharedCellAllCollided ==
    (pc = "while" /\ step >= 1) =>
        \A i, j \in 1..Len(cars) :
            (i # j /\ SameCell(cars[i], cars[j])) => (cars[i].collided /\ cars[j].collided)

\* C11: when run() has left its while loop, every car is collided or has
\* command_index equal to the number of its commands, whatever the other
\* cars' command strings are and whenever they collided.
C11_EndsCollidedOrExhausted ==
    pc \in {"results", "done"} =>
        \A i \in 1..Len(cars) :
            cars[i].collided \/ cars[i].command_index = Len(cars[i].commands)

\* A run ended with a car that executed both of its commands and did not
\* collide, next to a car without commands and a car that collided in the
\* first round with a command left.
C11_Witness ==
    /\ pc = "done"
    /\ \E i, j, k \in 1..Len(cars) :
          /\ ~cars[i].collided /\ cars[i].command_index = 2 /\ Len(cars[i].commands) = 2
          /\ Len(cars[j].commands) = 0
          /\ cars[k].collided /\ cars[k].collision_info[3] = 1 /\ has_next_command(cars[k])

\* C12: run() returns one result per registered car, in registration order;
\* the result of a car has the collided shape (other names, collision
\* position, step) exactly when the car is collided when run() ends, and
\* otherwise holds the car's final x, y and direction.
C12_OneResultPerCar ==
    pc = "done" =>
        /\ Len(results) = Len(cars)
        /\ \A i \in 1..Len(cars) :
              /\ results[i][1] = cars[i].name
              /\ cars[i].collided <=> Len(results[i]) = 5
              /\ cars[i].collided =>
                    /\ results[i][2] = "collides with"
                    /\ results[i][3] = cars[i].collision_info[1]
                    /\ results[i][4] = cars[i].collision_info[2]
                    /\ results[i][5] = cars[i].collision_info[3]
              /\ ~cars[i].collided =>
                    results[i] = <<cars[i].name, <<cars[i].x, cars[i].y>>, cars[i].direction>>

\* run() returned the results of three cars: the first two collided, the
\* third moved off its initial cell and did not collide.
C12_Witness ==
    /\ pc = "done"
    /\ Len(results) = 3
    /\ cars[1].collided /\ cars[2].collided
    /\ ~cars[3].collided
    /\ <<cars[3].x, cars[3].y>> # <<cars[3].initial_x, cars[3].initial_y>>

\* The first n commands of a car are all the command c.
FirstAre(car, n, c) ==
    Len(car.commands) >= n /\ \A k \in 1..n : car.commands[k] = c

\* C13: rotate_left maps N to W, W to S, S to E and E to N, rotate_right is
\* its inverse, four left turns or four right turns give the heading back,
\* and a car executing L or R takes the heading of the table and keeps x, y:
\* a car whose first four commands are four L or four R has, after them, its
\* initial heading and cell.
C13_RotationIsFourCycle ==
    [][/\ \A d \in Directions :
             /\ rotate_left(d) = [N |-> "W", W |-> "S", S |-> "E", E |-> "N"][d]
             /\ rotate_right(rotate_left(d)) = d
             /\ rotate_left(rotate_right(d)) = d
             /\ rotate_left(rotate_left(rotate_left(rotate_left(d)))) = d
             /\ rotate_right(rotate_right(rotate_right(rotate_right(d)))) = d
       /\ (pc = "for" /\ may_execute(cars[idx])) =>
             LET cmd == cars[idx].commands[cars[idx].command_index + 1]
             IN  cmd \in {"L", "R"} =>
                    /\ cars'[idx].x = cars[idx].x
                    /\ cars'[idx].y = cars[idx].y
                    /\ cars'[idx].direction =
                           IF cmd = "L" THEN rotate_left(cars[idx].direction)
                                        ELSE rotate_right(cars[idx].direction)
       /\ \A i \in 1..Len(cars') :
             (/\ cars'[i].command_index = 4
              /\ FirstAre(cars'[i], 4, "L") \/ FirstAre(cars'[i], 4, "R"))
             => /\ cars'[i].direction = cars'[i].initial_direction
                /\ cars'[i].x = cars'[i].initial_x
                /\ cars'[i].y = cars'[i].initial_y]_vars

\* A car has executed four left turns.
C13_Witness ==
    \E i \in 1..Len(cars) :
        /\ cars[i].command_index = 4
        /\ FirstAre(cars[i], 4, "L")
        /\ cars[i].direction = cars[i].initial_direction

\* The Simulation is the one of the scenario with the cars A and B, or with A alone.
IsScenario(n) ==
    /\ field = NewField(10, 10)
    /\ Len(cars) = n
    /\ \A i \in 1..n : reset(cars[i]) = <<ScenarioA, ScenarioB>>[i]

\* C14: on the 10x10 field with A at (1,2) N FFRFFFFRRL and B at (7,8) W
\* FFLFFFFFFF, run() reports A collided with B and B with A at (5,4) at step
\* 7 and no car ever executes more than 7 commands; with A alone, run() ends
\* with A at (5,4) heading S, not collided.
C14_CollisionScenario ==
    /\ IsScenario(2) =>
          /\ \A i \in 1..2 : cars[i].command_index <= 7
          /\ pc = "done" =>
                /\ results = << <<"A", "collides with", <<"B">>, <<5, 4>>, 7>>,
                                <<"B", "collides with", <<"A">>, <<5, 4>>, 7>> >>
                /\ cars[1].collided /\ cars[2].collided
                /\ cars[1].command_index = 7 /\ cars[2].command_index = 7
    /\ (IsScenario(1) /\ pc = "done") =>
          /\ results = << <<"A", <<5, 4>>, "S">> >>
          /\ ~cars[1].collided
          /\ cars[1].command_index = 10

\* The run of A and B ended with both cars on (5,4).
C14_Witness ==
    /\ IsScenario(2)
    /\ pc = "done"
    /\ \A i \in 1..2 : cars[i].x = 5 /\ cars[i].y = 4 /\ has_next_command(cars[i])

\* C15: whenever the shell calls Simulation.run, the field has positive
\* width and height, there is at least one car, and every car has a name
\* that is not empty and is unique in the list, an initial cell within the
\* field, an initial heading among N, S, E, W and commands over F, L, R.
C15_ShellSuppliesValidInput ==
    pc = "idle" =>
        /\ field.width > 0
        /\ field.height > 0
        /\ Len(cars) >= 1
        /\ \A i \in 1..Len(cars) :
              /\ cars[i].name # <<>>
              /\ \A j \in 1..Len(cars) : cars[j].name = cars[i].name => j = i
              /\ is_within_bounds(field, cars[i].initial_x, cars[i].initial_y)
              /\ cars[i].initial_direction \in Directions
              /\ \A k \in 1..Len(cars[i].commands) : cars[i].commands[k] \in Commands

\* The position line has three tokens, the first two are integers, and the
\* position they give is outside the field f.
OutsideOf(f, words) ==
    /\ Len(words) = 3
    /\ ~int_raises(words[1]) /\ ~int_raises(words[2])
    /\ ~(/\ 0 <= int(words[1]) /\ int(words[1]) < f.width
         /\ 0 <= int(words[2]) /\ int(words[2]) < f.height)

\* A coordinate of a position line of three tokens is not an integer.
NotIntegers(words) ==
    Len(words) = 3 /\ (int_raises(words[1]) \/ int_raises(words[2]))

\* The name was typed as the name of a car of the list.
NameTaken(cs, name_input) == \E k \in 1..Len(cs) : cs[k].name = name_input

\* The car list grows only by one car at its end, with a name no car of the
\* list has, an initial cell within the field, a heading among N, S, E, W and
\* commands over F, L, R.
GrowsByCheckedCar ==
    Len(cars') > Len(cars) =>
        /\ Len(cars') = Len(cars) + 1
        /\ SubSeq(cars', 1, Len(cars)) = cars
        /\ LET car == cars'[Len(cars')]
           IN  /\ ~NameTaken(cars, car.name)
               /\ 0 <= car.initial_x /\ car.initial_x < field.width
               /\ 0 <= car.initial_y /\ car.initial_y < field.height
               /\ car.initial_direction \in Directions
               /\ \A k \in 1..Len(car.commands) : car.commands[k] \in Commands

\* C16 as stated: the heading and the commands are taken as they are typed.
C16_RejectsAsTyped ==
    pc = "menu" =>
        \A name_input \in NameLines, pos_line \in PositionLines, commands_input \in CommandLines :
            LET words == split(strip(pos_line))
            IN  (\/ NameTaken(cars, name_input)
                 \/ Len(words) # 3
                 \/ NotIntegers(words)
                 \/ Len(words) = 3 /\ words[3] \notin {<<"N">>, <<"S">>, <<"E">>, <<"W">>}
                 \/ OutsideOf(field, words)
                 \/ \E k \in 1..Len(commands_input) : commands_input[k] \notin {"F", "L", "R"})
                => get_car(cars, field, name_input, pos_line, commands_input) = <<>>

\* C16, amended: get_car returns no car, and the list stays as it is,
\* whenever the name typed is the name of a car of the list, the position
\* line has not exactly three tokens, a coordinate is not an integer, the
\* heading in upper case is not one of N, S, E, W, the position is outside
\* the field, or the commands, without the blanks around them and in upper
\* case, hold a character other than F, L, R; and the list only ever grows by
\* a car that passed these checks.
C16_RejectsAfterNormalising ==
    /\ [](pc = "menu" =>
            \A name_input \in NameLines, pos_line \in PositionLines, commands_input \in CommandLines :
                LET words == split(strip(pos_line))
                    commands == upper(strip(commands_input))
                IN  (\/ NameTaken(cars, name_input)
                     \/ Len(words) # 3
                     \/ NotIntegers(words)
                     \/ Len(words) = 3 /\ upper(words[3]) \notin {<<"N">>, <<"S">>, <<"E">>, <<"W">>}
                     \/ OutsideOf(field, words)
                     \/ \E k \in 1..Len(commands) : commands[k] \notin {"F", "L", "R"})
                    => /\ get_car(cars, field, name_input, pos_line, commands_input) = <<>>
                       /\ cars \o get_car(cars, field, name_input, pos_line, commands_input) = cars)
    /\ [][GrowsByCheckedCar]_vars

\* The list holds two cars, one of them entered with the heading e and the
\* commands r.
C16_Witness ==
    /\ pc = "menu"
    /\ Len(cars) = 2
    /\ \E i \in 1..2 : cars[i].initial_direction = "E" /\ cars[i].commands = <<"R">>

\* C17: when the car whose turn it is is not collided and has a command
\* left, executing it adds one to command_index; L and R change nothing else
\* but the heading; F changes nothing else but the position, which becomes
\* the cell one unit ahead when that cell is within the field and stays the
\* same otherwise; collided, collision_info, name, the initial values, the
\* commands and the other cars stay as they are.
C17_ExecuteFrame ==
    [][(pc = "for" /\ ~cars[idx].collided
                   /\ cars[idx].command_index < Len(cars[idx].commands)) =>
          LET car == cars[idx]
              after == cars'[idx]
              cmd == car.commands[car.command_index + 1]
          IN  /\ after.command_index = car.command_index + 1
              /\ after.collided = car.collided
              /\ after.collision_info = car.collision_info
              /\ after.name = car.name
              /\ after.initial_x = car.initial_x
              /\ after.initial_y = car.initial_y
              /\ after.initial_direction = car.initial_direction
              /\ after.commands = car.commands
              /\ cmd \in {"L", "R"} => (after.x = car.x /\ after.y = car.y)
              /\ cmd = "F" =>
                    /\ after.direction = car.direction
                    /\ <<after.x, after.y>> =
                          IF OutsideField(Ahead(car)) THEN <<car.x, car.y>> ELSE Ahead(car)
              /\ \A k \in 1..Len(cars) : k # idx => cars'[k] = cars[k]
              /\ Len(cars') = Len(cars)]_vars

\* Of two cars, the second has moved one cell to the East or the West.
C17_Witness ==
    /\ Len(cars) >= 2
    /\ cars[2].command_index = 1
    /\ cars[2].commands[1] = "F"
    /\ cars[2].x # cars[2].initial_x

\* execute_next_command called n times in a row.
RECURSIVE Repeated(_, _, _)
Repeated(car, f, n) ==
    IF n = 0 THEN car ELSE Repeated(execute_next_command(car, f), f, n - 1)

\* C18: in every reachable state every car has 0 <= command_index <=
\* number of its commands, has_next_command holds exactly when command_index
\* is less than the number of commands, and on a car with no command left
\* execute_next_command, called once or several times, changes no field.
C18_IndexWithinCommands ==
    \A i \in 1..Len(cars) :
        /\ 0 <= cars[i].command_index
        /\ cars[i].command_index <= Len(cars[i].commands)
        /\ has_next_command(cars[i]) <=> cars[i].command_index < Len(cars[i].commands)
        /\ cars[i].command_index >= Len(cars[i].commands) =>
              \A n \in 1..3 : Repeated(cars[i], field, n) = cars[i]

\* The second round was played: a car has executed both of its commands,
\* next to a car without commands, neither of them collided.
C18_Witness ==
    /\ pc = "check"
    /\ step = 2
    /\ \E i, j \in 1..Len(cars) :
          /\ ~cars[i].collided /\ Len(cars[i].commands) = 2 /\ cars[i].command_index = 2
          /\ ~cars[j].collided /\ Len(cars[j].commands) = 0

\* C19: with every initial position within the field, in every reachable
\* state of run() every car has 0 <= x < width and 0 <= y < height, and so
\* has every collision position recorded.
C19_CarsStayInField ==
    (\A i \in 1..Len(cars) :
        /\ 0 <= cars[i].initial_x /\ cars[i].initial_x < field.width
        /\ 0 <= cars[i].initial_y /\ cars[i].initial_y < field.height)
    => \A i \in 1..Len(cars) :
          /\ 0 <= cars[i].x /\ cars[i].x < field.width
          /\ 0 <= cars[i].y /\ cars[i].y < field.height
          /\ cars[i].collided =>
                /\ 0 <= cars[i].collision_info[2][1]
                /\ cars[i].collision_info[2][1] < field.width
                /\ 0 <= cars[i].collision_info[2][2]
                /\ cars[i].collision_info[2][2] < field.height

\* A run ended with a collision recorded and a car that did not collide and
\* whose two F commands, towards the West or the South, left it on its
\* initial cell.
C19_Witness ==
    /\ pc = "done"
    /\ \E i, j \in 1..Len(cars) :
          /\ cars[i].collided
          /\ ~cars[j].collided
          /\ cars[j].commands = <<"F", "F">>
          /\ cars[j].direction \in {"W", "S"}
          /\ <<cars[j].x, cars[j].y>> = <<cars[j].initial_x, cars[j].initial_y>>

\* C20: after the collision check of every round, no two cars that are not
\* collided stand on the same cell, also when cars started on the same cell
\* and when one of them had no command left.
C20_NoTwoActiveCarsShareCell ==
    (pc \in {"while", "results", "done"} /\ step >= 1) =>
        \A i, j \in 1..Len(cars) :
            (i # j /\ ~cars[i].collided /\ ~cars[j].collided)
            => ~SameCell(cars[i], cars[j])

\* The first round ended: two cars that started on the same cell, one of
\* them without commands, are collided where they started.
C20_Witness ==
    /\ pc = "while"
    /\ step = 1
    /\ \E i, j \in 1..Len(cars) :
          /\ i # j
          /\ cars[i].initial_x = cars[j].initial_x /\ cars[i].initial_y = cars[j].initial_y
          /\ Len(cars[i].commands) = 0
          /\ cars[i].collided /\ cars[j].collided
          /\ cars[i].collision_info[2] = <<cars[i].initial_x, cars[i].initial_y>>

\* C21: in every reachable state, also when run() is called again, a car is
\* collided exactly when it has a collision_info, and the collision_info of
\* a collided car holds the cell the car stands on and a step N with
\* 1 <= N <= step.
C21_CollisionInfoMatchesCar ==
    \A i \in 1..Len(cars) :
        /\ cars[i].collided <=> cars[i].collision_info # None
        /\ cars[i].collided =>
              /\ cars[i].collision_info[2] = <<cars[i].x, cars[i].y>>
              /\ 1 <= cars[i].collision_info[3]
              /\ cars[i].collision_info[3] <= step

\* In a later call of run(), the second round ended with a car that collided
\* in the first round and a car that did not collide and has moved.
C21_Witness ==
    /\ returned
    /\ pc = "while"
    /\ step = 2
    /\ \E i, j \in 1..Len(cars) :
          /\ cars[i].collided /\ cars[i].collision_info[3] = 1
          /\ ~cars[j].collided
          /\ cars[j].x # cars[j].initial_x

====
